---- MODULE Spec2Model ----
(***************************************************************************)
(* Model of package dictionary (src/dictionary/dictionary.go): a succinct  *)
(* indexable dictionary over a byte-packed bit vector with a two-level     *)
(* rank index (small: uint16 per block, large: int per 8191 blocks).       *)
(*                                                                         *)
(* Go slices are modelled as functions with domain 0..len-1, so that the   *)
(* model indexes them exactly as the code does.  The nil slice and the     *)
(* empty slice are both the function with empty domain, << >>.             *)
(***************************************************************************)
EXTENDS Integers, Sequences, FiniteSets

(***************************************************************************)
(* Program constants.                                                      *)
(***************************************************************************)
bitsSize == 8

bitsPerRankIndexLarge == 8191

(***************************************************************************)
(* Bounds of the model.                                                    *)
(***************************************************************************)
\* Number of bit positions of a small dictionary that single SetBit calls
\* write; they are spread evenly over the dictionary.
NumPositions == 4

\* Requested size, in bits, of a small dictionary that is not a whole number
\* of blocks: New rounds it up, and the last block is partly padding.
SmallSize == 12

\* Requested size, in bits, of the large dictionary: one bit more than a
\* whole superblock, so that its blocks are a full superblock 0..8190 and
\* the first block, 8191, of the next one.
LargeSize == 65529

(***************************************************************************)
(* Fixed-width integers and byte operations.                               *)
(***************************************************************************)
Byte == 0..255

\* Bit k of byte x.
BitOf(x, k) == (x \div (2^k)) % 2

\* Conversion to uint8 / uint16: wraps modulo 2^8 / 2^16.
Uint8(v) == v % 256

Uint16(v) == v % 65536

\* x & y on uint8, bit by bit.
And8Table ==
    [x \in Byte |-> [y \in Byte |->
        BitOf(x, 0) * BitOf(y, 0)       + 2 * BitOf(x, 1) * BitOf(y, 1)
      + 4 * BitOf(x, 2) * BitOf(y, 2)   + 8 * BitOf(x, 3) * BitOf(y, 3)
      + 16 * BitOf(x, 4) * BitOf(y, 4)  + 32 * BitOf(x, 5) * BitOf(y, 5)
      + 64 * BitOf(x, 6) * BitOf(y, 6)  + 128 * BitOf(x, 7) * BitOf(y, 7)]]

And8(x, y) == And8Table[x][y]

\* x | y == x + y - (x & y);  x &^ y == x - (x & y).
Or8(x, y) == x + y - And8(x, y)

AndNot8(x, y) == x - And8(x, y)

\* math/bits.OnesCount8, tabulated once.
OnesCount8Table ==
    [x \in Byte |-> BitOf(x, 0) + BitOf(x, 1) + BitOf(x, 2) + BitOf(x, 3)
                  + BitOf(x, 4) + BitOf(x, 5) + BitOf(x, 6) + BitOf(x, 7)]

OnesCount8(x) == OnesCount8Table[x]

\* len(a) and make([]T, n) for the slices of the program.
len(a) == Cardinality(DOMAIN a)

make(n) == [i \in 0..(n - 1) |-> 0]

InRange(a, i) == i \in DOMAIN a

VARIABLES
    bits,     \* d.bits: []uint8
    rank,     \* d.rank: rankIndex, [small |-> []uint16, large |-> []int]
    last,     \* the last call made on d: [op, arg, val, fault]; arg is the
              \* argument of New and of a query, the position of SetBit, and
              \* for CreateIndex the length of the small array that the call
              \* replaces; val is the value returned, and for SetBit its
              \* flag, 1 for true and 0 for false
    phase     \* "new", "dirty" (bits written since the last CreateIndex, or
              \* never indexed) or "indexed" (no write since CreateIndex)

vars == <<bits, rank, last, phase>>

(***************************************************************************)
(* Dictionary: storage.                                                    *)
(***************************************************************************)
\* New: the byte slice of a dictionary of the given size.
NewBits(size) ==
    LET l == size \div bitsSize
    IN  make(IF size % bitsSize > 0 THEN l + 1 ELSE l)

\* Len, of the dictionary whose byte slice is b.
DLen(b) == len(b) * bitsSize

bitsIndex(pos) == pos \div bitsSize

bitPos(pos) == pos % bitsSize

\* A SetBit whose clearing branch leaves the byte as it is.
SetBitByteNoClear(x, k, flag) ==
    LET m == Uint8(2^k)
    IN  IF flag THEN Or8(x, m) ELSE x

\* SetBit, on the byte x = d.bits[bi] that it rewrites: k is bitPos(pos).
SetBitByte(x, k, flag) ==
    LET m == Uint8(2^k)
    IN  IF flag THEN Or8(x, m) ELSE AndNot8(x, m)

\* SetBit on the byte slice b.
SetBitIn(b, pos, flag) ==
    LET bi == bitsIndex(pos)
    IN  [b EXCEPT ![bi] = SetBitByte(b[bi], bitPos(pos), flag)]

\* Bit on the byte slice b.
BitIn(b, pos) == And8(b[bitsIndex(pos)], Uint8(2^bitPos(pos))) > 0

Bit(pos) == BitIn(bits, pos)

(***************************************************************************)
(* rankIndex.                                                              *)
(***************************************************************************)
newRankIndex(size) ==
    LET sl0 == size \div bitsSize + 1
        sl  == IF size % bitsSize # 0 THEN sl0 + 1 ELSE sl0
        ls  == bitsSize * bitsPerRankIndexLarge
        ll0 == size \div ls + 1
        ll  == IF size % ls # 0 THEN ll0 + 1 ELSE ll0
    IN  [small |-> make(sl), large |-> make(ll)]

largeIndex(bi) == bi \div bitsPerRankIndexLarge

\* An update that stores the absolute count in small, r.large[li] not taken
\* off.
updateNoBase(large, bi, onesCount) ==
    LET li == bi \div bitsPerRankIndexLarge
    IN  IF bi % bitsPerRankIndexLarge = bitsPerRankIndexLarge - 1
        THEN [arr |-> "large", idx |-> li + 1, val |-> onesCount,
              fault |-> FALSE]
        ELSE [arr |-> "small", idx |-> bi + 1, val |-> Uint16(onesCount),
              fault |-> FALSE]

\* An update that takes no block for the last of its superblock: it never
\* writes large, and counts in small from the start of the dictionary.
updateSmallOnly(large, bi, onesCount) ==
    LET li == bi \div bitsPerRankIndexLarge
    IN  IF li \in DOMAIN large
        THEN [arr |-> "small", idx |-> bi + 1,
              val |-> Uint16(onesCount - large[li]), fault |-> FALSE]
        ELSE [arr |-> "small", idx |-> bi + 1, val |-> 0, fault |-> TRUE]

\* update(bitsIndex, onesCount), with large the array r.large as it stands:
\* the one write the call makes, [arr, idx, val]; fault is the out-of-range
\* read of r.large[li].
update(large, bi, onesCount) ==
    LET li == largeIndex(bi)
    IN  IF bi % bitsPerRankIndexLarge = bitsPerRankIndexLarge - 1
        THEN [arr |-> "large", idx |-> li + 1, val |-> onesCount,
              fault |-> FALSE]
        ELSE IF InRange(large, li)
        THEN [arr |-> "small", idx |-> bi + 1,
              val |-> Uint16(onesCount - large[li]), fault |-> FALSE]
        ELSE [arr |-> "small", idx |-> bi + 1, val |-> 0, fault |-> TRUE]

\* A rank whose reads are never out of range.
rankFaultNever(r, bi) == FALSE

\* A rank that leaves out the count of the superblocks before the block.
rankOfSmallOnly(r, bi) == r.small[bi]

\* rankIndex.rank on r = [small, large]; rankFault is its out-of-range read.
rankFault(r, bi) ==
    ~InRange(r.large, largeIndex(bi)) \/ ~InRange(r.small, bi)

rankOf(r, bi) == r.large[largeIndex(bi)] + r.small[bi]

\* A oneBitsCount whose mask leaves out bit pos itself.
oneBitsCountExclusive(x, pos) == OnesCount8(And8(x, Uint8(2^pos - 1)))

\* bits.OnesCount8(x & (1<<(pos+1) - 1)) for every byte x and every pos of a
\* block, tabulated once.
oneBitsCountTable ==
    [x \in Byte |-> [pos \in 0..(bitsSize - 1) |->
        OnesCount8(And8(x, Uint8(2^(pos + 1) - 1)))]]

oneBitsCount(x, pos) == oneBitsCountTable[x][pos]

(***************************************************************************)
(* CreateIndex.                                                            *)
(*                                                                         *)
(* The loop "for i, b := range d.bits" makes one update call per block,    *)
(* with the running count c.  OnesCounts is the sequence of the values of  *)
(* c: its entry i+1 is c as block i passes it to update.  What the calls   *)
(* leave in the two arrays is then put together array by array, as         *)
(*   - update(i, c) writes large[i/8191 + 1] when i is the last block of   *)
(*     a superblock, small[i+1] otherwise, and nothing else: large is      *)
(*     written by the blocks 8190, 16381, ... in turn, and small[j] by     *)
(*     block j-1 alone;                                                    *)
(*   - the entry large[i/8191] that update(i, c) reads is written, if at   *)
(*     all, by the earlier block 8191*(i/8191) - 1, and by no later one:   *)
(*     the call reads what the loop leaves there.                          *)
(***************************************************************************)
\* The values of c after each of the blocks lo..hi-1 of b, from the value c
\* before block lo.  The range is split in halves, the first half first, so
\* that the iteration nests only logarithmically deep.
RECURSIVE OnesCountsLoop(_, _, _, _)
OnesCountsLoop(ob, lo, hi, c) ==
    IF hi <= lo THEN << >>
    ELSE IF hi = lo + 1 THEN << c + ob[lo] >>
    ELSE LET left == OnesCountsLoop(ob, lo, (lo + hi) \div 2, c)
         IN  left \o OnesCountsLoop(ob, (lo + hi) \div 2, hi, left[Len(left)])

\* ob[i] is oneBitsCount(b, bitsSize-1) for the block b = d.bits[i].
OnesCounts(b) ==
    OnesCountsLoop([i \in DOMAIN b |-> oneBitsCount(b[i], bitsSize - 1)],
                   0, len(b), 0)

\* r.large after the update calls of the blocks i, i + 8191, ... below n,
\* the last blocks of the superblocks, from r.large = large; cs[i+1] is the
\* count passed by block i.
RECURSIVE LargeLoop(_, _, _, _)
LargeLoop(large, cs, i, n) ==
    IF n <= i THEN large
    ELSE LET w == update(large, i, cs[i + 1])
         IN  LargeLoop(IF w.arr = "large" /\ InRange(large, w.idx)
                       THEN [large EXCEPT ![w.idx] = w.val] ELSE large,
                       cs, i + bitsPerRankIndexLarge, n)

\* CreateIndex on the byte slice b: [small, large, fault], the rankIndex it
\* leaves in d.rank, and whether a call of update indexed out of range.
CreateIndexOf(b) ==
    LET r0    == newRankIndex(DLen(b))
        n     == len(b)
        cs    == OnesCounts(b)
        large == LargeLoop(r0.large, cs, bitsPerRankIndexLarge - 1, n)
        small == [j \in DOMAIN r0.small |->
                    IF 1 <= j /\ j <= n
                    THEN LET w == update(large, j - 1, cs[j])
                         IN  IF w.arr = "small" /\ w.idx = j
                             THEN w.val ELSE r0.small[j]
                    ELSE r0.small[j]]
        fault == \E i \in 0..(n - 1) :
                    LET w == update(large, i, cs[i + 1])
                    IN  \/ w.fault
                        \/ w.arr = "large" /\ ~InRange(r0.large, w.idx)
                        \/ w.arr = "small" /\ ~InRange(r0.small, w.idx)
    IN  [small |-> small, large |-> large, fault |-> fault]

(***************************************************************************)
(* Queries.  Each comes as the value it returns and as the condition under *)
(* which it faults (an index out of range) instead of returning.           *)
(***************************************************************************)
RankFault(pos) ==
    ~InRange(bits, bitsIndex(pos)) \/ rankFault(rank, bitsIndex(pos))

Rank(pos) ==
    LET bi == bitsIndex(pos)
    IN  rankOf(rank, bi) + oneBitsCount(bits[bi], bitPos(pos))

\* Two Rank0 that are off by one, one down and one up.
Rank0NoPlusOne(pos) == pos - Rank(pos)

Rank0PlusTwo(pos) == pos - Rank(pos) + 2

Rank0(pos) == pos - Rank(pos) + 1

\* A loop of Select that also moves right where Rank(m) = rank.
RECURSIVE SelectLoopStrict(_, _, _)
SelectLoopStrict(l, r, k) ==
    IF l = r THEN [val |-> l, fault |-> FALSE]
    ELSE LET m == (l + r) \div 2
         IN  IF RankFault(m) THEN [val |-> 0, fault |-> TRUE]
             ELSE IF Rank(m) <= k THEN SelectLoopStrict(m + 1, r, k)
             ELSE SelectLoopStrict(l, m, k)

\* The loop of Select from l, r: [val, fault].
RECURSIVE SelectLoop(_, _, _)
SelectLoop(l, r, k) ==
    IF l = r THEN [val |-> l, fault |-> FALSE]
    ELSE LET m == (l + r) \div 2
         IN  IF RankFault(m) THEN [val |-> 0, fault |-> TRUE]
             ELSE IF Rank(m) < k THEN SelectLoop(m + 1, r, k)
             ELSE SelectLoop(l, m, k)

Select(k) == SelectLoop(0, DLen(bits), k)

\* A Select0 that searches by Rank, as Select does.
Select0ByRank(k) == SelectLoop(0, DLen(bits), k)

RECURSIVE Select0Loop(_, _, _)
Select0Loop(l, r, k) ==
    IF l = r THEN [val |-> l, fault |-> FALSE]
    ELSE LET m == (l + r) \div 2
         IN  IF RankFault(m) THEN [val |-> 0, fault |-> TRUE]
             ELSE IF Rank0(m) < k THEN Select0Loop(m + 1, r, k)
             ELSE Select0Loop(l, m, k)

Select0(k) == Select0Loop(0, DLen(bits), k)

(***************************************************************************)
(* The test helpers that build a dictionary from a []bool                  *)
(* (dictionary_test.go): the bit patterns, and the loop of SetBit calls.   *)
(***************************************************************************)
\* oneBits: size bits, every one of them true.
RECURSIVE oneBits(_)
oneBits(size) ==
    IF size <= 0 THEN << >>
    ELSE IF size = 1 THEN << TRUE >>
    ELSE oneBits(size \div 2) \o oneBits(size - size \div 2)

\* The bit sequence of the scenario: 1,0,1,1,0,0,0,1,1,1,0,0,0,0,0,1.
ScenarioBits ==
    << TRUE, FALSE, TRUE, TRUE, FALSE, FALSE, FALSE, TRUE,
       TRUE, TRUE, FALSE, FALSE, FALSE, FALSE, FALSE, TRUE >>

\* "for i, b := range bits { d.SetBit(i, b) }" on the byte x = d.bits[bi],
\* for the positions pos..hi-1, all of block bi: SetBit rewrites no other
\* byte than that of its position.
RECURSIVE SetBitsByte(_, _, _, _)
SetBitsByte(x, bs, pos, hi) ==
    IF hi <= pos THEN x
    ELSE SetBitsByte(SetBitByte(x, bitPos(pos), bs[pos + 1]), bs, pos + 1, hi)

\* The same loop on the byte slice b, block by block.
SetBitsIn(b, bs) ==
    LET n == Len(bs)
    IN  [bi \in DOMAIN b |->
            LET lo == bitsSize * bi
                hi == IF lo + bitsSize < n THEN lo + bitsSize ELSE n
            IN  SetBitsByte(b[bi], bs, lo, hi)]

(***************************************************************************)
(* Inputs.                                                                 *)
(***************************************************************************)
\* The first bit position of superblock 1.
LargeBoundary == bitsSize * bitsPerRankIndexLarge

IsSmall == DLen(bits) < LargeBoundary

SmallSizes == {SmallSize, Len(ScenarioBits)}

\* Bit patterns a dictionary of the given size is built from.
Patterns(size) ==
    {oneBits(size)}
        \cup (IF size = Len(ScenarioBits) THEN {ScenarioBits} ELSE {})

\* Positions of single SetBit calls: NumPositions positions of a small
\* dictionary; in the large one, the last bit of superblock 0.
Positions ==
    IF IsSmall
    THEN {(k * DLen(bits)) \div NumPositions : k \in 0..(NumPositions - 1)}
    ELSE {LargeBoundary - 1}

\* Positions queried in a dictionary built under SpecLarge: the last bit of
\* the last block of superblock 0 and the first bit of the block after it, or
\* the like positions of the two blocks of a small dictionary.
BoundaryPositions ==
    IF IsSmall THEN {bitsSize - 1, bitsSize}
    ELSE {LargeBoundary - 1, LargeBoundary}

\* Positions and ranks queried in a small dictionary: those of the scenario,
\* and the rank past every count that TestSelect asks for.
QueryPositions == {0, 7, 15}

QueryRanks == {1, 4, 6, 7, 8, Len(ScenarioBits) + 100}

(***************************************************************************)
(* Initial states and actions.                                             *)
(***************************************************************************)
New(size) ==
    /\ bits = NewBits(size)
    /\ rank = [small |-> << >>, large |-> << >>]
    /\ last = [op |-> "New", arg |-> size, val |-> 0, fault |-> FALSE]
    /\ phase = "new"

Init == \E size \in SmallSizes : New(size)

InitLarge == \E size \in SmallSizes \cup {LargeSize} : New(size)

\* The loop of newDictionary on the dictionary just made by New(len(bs)).
SetBits(bs) ==
    /\ last.op = "New"
    /\ last.arg = Len(bs)
    /\ bits' = SetBitsIn(bits, bs)
    /\ last' = [op |-> "SetBits", arg |-> 0, val |-> 0, fault |-> FALSE]
    /\ phase' = "dirty"
    /\ UNCHANGED rank

SetBit(pos, flag) ==
    /\ InRange(bits, bitsIndex(pos))
    /\ bits' = SetBitIn(bits, pos, flag)
    /\ last' = [op |-> "SetBit", arg |-> pos,
                val |-> IF flag THEN 1 ELSE 0, fault |-> FALSE]
    /\ phase' = "dirty"
    /\ UNCHANGED rank

\* A CreateIndex that builds the index once, and keeps it from then on.
CreateIndexOnce ==
    LET r == IF len(rank.large) = 0 THEN CreateIndexOf(bits)
             ELSE [small |-> rank.small, large |-> rank.large, fault |-> FALSE]
    IN  /\ rank' = [small |-> r.small, large |-> r.large]
        /\ last' = [op |-> "CreateIndex", arg |-> len(rank.small), val |-> 0,
                    fault |-> r.fault]
        /\ phase' = "indexed"
        /\ UNCHANGED bits

CreateIndex ==
    LET r == CreateIndexOf(bits)
    IN  /\ rank' = [small |-> r.small, large |-> r.large]
        /\ last' = [op |-> "CreateIndex", arg |-> len(rank.small), val |-> 0,
                    fault |-> r.fault]
        /\ phase' = "indexed"
        /\ UNCHANGED bits

DoRank(pos) ==
    /\ last' = [op |-> "Rank", arg |-> pos,
                val |-> IF RankFault(pos) THEN 0 ELSE Rank(pos),
                fault |-> RankFault(pos)]
    /\ UNCHANGED <<bits, rank, phase>>

DoRank0(pos) ==
    /\ last' = [op |-> "Rank0", arg |-> pos,
                val |-> IF RankFault(pos) THEN 0 ELSE Rank0(pos),
                fault |-> RankFault(pos)]
    /\ UNCHANGED <<bits, rank, phase>>

DoSelect(k) ==
    /\ last' = [op |-> "Select", arg |-> k,
                val |-> Select(k).val, fault |-> Select(k).fault]
    /\ UNCHANGED <<bits, rank, phase>>

DoSelect0(k) ==
    /\ last' = [op |-> "Select0", arg |-> k,
                val |-> Select0(k).val, fault |-> Select0(k).fault]
    /\ UNCHANGED <<bits, rank, phase>>

Next ==
    \/ \E bs \in Patterns(last.arg) : SetBits(bs)
    \/ \E pos \in Positions, flag \in BOOLEAN : SetBit(pos, flag)
    \/ CreateIndex
    \/ \E pos \in QueryPositions : DoRank(pos)
    \/ \E pos \in QueryPositions : DoRank0(pos)
    \/ \E k \in QueryRanks : DoSelect(k)
    \/ \E k \in QueryRanks : DoSelect0(k)

Spec == Init /\ [][Next]_vars

\* Dictionaries up to the one of more than a superblock: built, indexed, and
\* Rank asked on either side of a block boundary.
NextLarge ==
    \/ \E bs \in Patterns(last.arg) : SetBits(bs)
    \/ \E pos \in Positions, flag \in BOOLEAN : SetBit(pos, flag)
    \/ CreateIndex
    \/ \E pos \in BoundaryPositions : DoRank(pos)

SpecLarge == InitLarge /\ [][NextLarge]_vars

(***************************************************************************)
(* What the properties are stated with.                                    *)
(***************************************************************************)
\* The literal number of set, and of unset, bits among positions 0..p.
CountOnes(p) == Cardinality({q \in 0..p : Bit(q)})

CountZeros(p) == Cardinality({q \in 0..p : ~Bit(q)})

TotalOnes == CountOnes(DLen(bits) - 1)

TotalZeros == CountZeros(DLen(bits) - 1)

\* The number of set bits among positions 0..q, for each q of lo..hi-1 in
\* turn, c being the number of set bits among positions 0..lo-1.
RECURSIVE SetBitCountsLoop(_, _, _)
SetBitCountsLoop(lo, hi, c) ==
    IF hi <= lo THEN << >>
    ELSE IF hi = lo + 1 THEN << c + (IF Bit(lo) THEN 1 ELSE 0) >>
    ELSE LET left == SetBitCountsLoop(lo, (lo + hi) \div 2, c)
         IN  left \o SetBitCountsLoop((lo + hi) \div 2, hi, left[Len(left)])

\* Entry p+1 is the number of set bits among positions 0..p.
SetBitCounts == SetBitCountsLoop(0, DLen(bits), 0)

\* The in-range positions, and the ranks asked: every rank up to one past
\* the number of positions, and those of QueryRanks.
InRangePositions == 0..(DLen(bits) - 1)

Ranks == 1..(DLen(bits) + 1) \cup QueryRanks

\* CreateIndex has never been called: d.rank is the zero value.
NeverIndexed == len(rank.small) = 0 /\ len(rank.large) = 0

\* CreateIndex has just returned.  No query writes bits or rank, so that
\* what the queries return in this state they return until the next SetBit.
JustIndexed == last.op = "CreateIndex"

\* The last call was the query op, made with no SetBit since CreateIndex.
Answered(op) == last.op = op /\ phase = "indexed"

\* C1: after New, in-range SetBit calls and then CreateIndex, Rank(p)
\* returns, for every position p with 0 <= p < Len(), the literal number of
\* set bits among positions 0..p; the dictionaries include the one whose
\* blocks are a whole superblock (its last block is block 8190) and the
\* first block of the next.
C1_RankCountsSetBits ==
    /\ JustIndexed =>
          /\ ~last.fault
          /\ LET cnt == SetBitCounts
             IN  \A p \in InRangePositions :
                    ~RankFault(p) /\ Rank(p) = cnt[p + 1]
    /\ Answered("Rank") => ~last.fault /\ last.val = CountOnes(last.arg)

\* Rank answered at the first bit of superblock 1 of the large dictionary
\* with every bit of superblock 0 set.
C1_Witness ==
    /\ ~IsSmall
    /\ Answered("Rank")
    /\ last.arg = LargeBoundary
    /\ last.val = LargeBoundary + 1

\* What Select(k), or Select0(k), has to return, given in res = [val, fault]:
\* cnt(p) counts the bits looked for among positions 0..p, rnk(p) is Rank or
\* Rank0, and total is the number of such bits in the dictionary.
SelectReturns(k, res, cnt(_), rnk(_), total, wanted(_)) ==
    /\ ~res.fault
    /\ IF k <= total
       THEN /\ res.val \in InRangePositions
            /\ wanted(res.val)
            /\ cnt(res.val) = k
            /\ rnk(res.val) >= k
            /\ \A q \in 0..(res.val - 1) : rnk(q) < k
       ELSE res.val = DLen(bits)

IsSet(p) == Bit(p)

IsUnset(p) == ~Bit(p)

\* C2: after CreateIndex, for every rank k >= 1, Select(k) returns the
\* position of the k-th set bit from the left, which is the smallest p with
\* Rank(p) >= k, when there are at least k set bits, and Len() when k is
\* greater than the number of set bits.
C2_SelectFindsSetBit ==
    /\ JustIndexed =>
          \A k \in Ranks :
             SelectReturns(k, Select(k), CountOnes, Rank, TotalOnes, IsSet)
    /\ Answered("Select") =>
          SelectReturns(last.arg, last, CountOnes, Rank, TotalOnes, IsSet)

\* Select answered with the position, not the first, of a set bit.
C2_Witness ==
    /\ Answered("Select")
    /\ last.arg <= TotalOnes
    /\ last.val > 0
    /\ last.val < DLen(bits)
    /\ Bit(last.val)

\* C3: after CreateIndex, for every rank k >= 1, Select0(k) returns the
\* position of the k-th unset bit from the left among positions 0..Len()-1,
\* the padding positions of the last block counting as unset bits, when
\* there are at least k unset bits, and Len() when k is greater than their
\* number.
C3_Select0FindsUnsetBit ==
    /\ JustIndexed =>
          \A k \in Ranks :
             SelectReturns(k, Select0(k), CountZeros, Rank0, TotalZeros,
                           IsUnset)
    /\ Answered("Select0") =>
          SelectReturns(last.arg, last, CountZeros, Rank0, TotalZeros,
                        IsUnset)

\* Select0 answered with a padding position of a dictionary of SmallSize
\* bits, all of them set.
C3_Witness ==
    /\ Answered("Select0")
    /\ \A q \in 0..(SmallSize - 1) : Bit(q)
    /\ last.val >= SmallSize
    /\ last.val < DLen(bits)
    /\ ~Bit(last.val)

\* C4: after CreateIndex, Rank0(p) returns, for every position p with
\* 0 <= p < Len(), the number of unset bits among positions 0..p.
C4_Rank0CountsUnsetBits ==
    /\ JustIndexed =>
          \A p \in InRangePositions :
             ~RankFault(p) /\ Rank0(p) = CountZeros(p)
    /\ Answered("Rank0") => ~last.fault /\ last.val = CountZeros(last.arg)

\* Rank0 answered where some bits before the position are set and some not.
C4_Witness ==
    /\ Answered("Rank0")
    /\ last.val > 0
    /\ last.val < last.arg + 1

\* C5, as stated: after CreateIndex, Rank(p) + Rank0(p) = p + 2 for every
\* position p with 0 <= p < Len().
C5_SumIsPosPlusTwo ==
    JustIndexed =>
       \A p \in InRangePositions :
          ~RankFault(p) /\ Rank(p) + Rank0(p) = p + 2

\* C5, as the code has it: after CreateIndex, Rank(p) + Rank0(p) = p + 1 for
\* every position p with 0 <= p < Len(), the number of positions 0..p.
C5_SumIsPosPlusOne ==
    /\ JustIndexed =>
          \A p \in InRangePositions :
             ~RankFault(p) /\ Rank(p) + Rank0(p) = p + 1
    /\ Answered("Rank0") => ~last.fault /\ Rank(last.arg) + last.val = last.arg + 1

\* Rank0 answered at the last position of a block, some bits set, some not.
C5_Witness ==
    /\ Answered("Rank0")
    /\ last.arg = bitsSize - 1
    /\ Rank(last.arg) > 0
    /\ last.val > 0

\* C6: a dictionary made by New has every bit unset; each SetBit(p, v) with
\* 0 <= p < Len() makes Bit(p) = v, whether v sets or clears the bit, and
\* leaves Bit(q) of every other position q as it was; the SetBit calls of a
\* whole bit sequence leave Bit(q) as the sequence has it; and no other call
\* changes a bit.  So Bit(q) is the v of the most recent SetBit(q, .), and
\* false where there was none.
C6_BitIsLastWritten ==
    [][ /\ last.op = "New" => \A q \in InRangePositions : ~Bit(q)
        /\ last'.op = "SetBit" =>
              \A q \in InRangePositions :
                 Bit(q)' = IF q = last'.arg THEN last'.val = 1 ELSE Bit(q)
        /\ last'.op = "SetBits" =>
              \E bs \in Patterns(last.arg) :
                 \A q \in InRangePositions :
                    Bit(q)' = IF q < Len(bs) THEN bs[q + 1] ELSE Bit(q)
        /\ last'.op \notin {"SetBit", "SetBits"} => bits' = bits
      ]_vars

\* SetBit has cleared bit 0 of a dictionary whose other bits of block 0 are
\* set.
C6_Witness ==
    /\ last.op = "SetBit"
    /\ last.arg = 0
    /\ last.val = 0
    /\ ~Bit(0)
    /\ \A q \in 1..(bitsSize - 1) : Bit(q)

\* The dictionary newDictionary builds from the bits of the scenario, before
\* its CreateIndex.
ScenarioDictionary == SetBitsIn(NewBits(Len(ScenarioBits)), ScenarioBits)

\* The dictionary of the scenario, indexed, returns the answers of the
\* scenario, with rank15, select6 and select7 those of Rank(15), Select(6)
\* and Select(7).
ScenarioReturns(rank15, select6, select7) ==
    (phase = "indexed" /\ bits = ScenarioDictionary) =>
       /\ DLen(bits) = 16
       /\ ~RankFault(0) /\ Rank(0) = 1
       /\ ~RankFault(7) /\ Rank(7) = 4
       /\ ~RankFault(15) /\ Rank(15) = rank15
       /\ Rank0(7) = 4
       /\ Select(1) = [val |-> 0, fault |-> FALSE]
       /\ Select(4) = [val |-> 7, fault |-> FALSE]
       /\ Select(6) = [val |-> select6, fault |-> FALSE]
       /\ Select(7) = [val |-> select7, fault |-> FALSE]
       /\ Select0(1) = [val |-> 1, fault |-> FALSE]
       /\ Select0(4) = [val |-> 6, fault |-> FALSE]
       /\ last.op \in {"Rank", "Rank0", "Select", "Select0"} =>
             /\ ~last.fault
             /\ last.op = "Rank" /\ last.arg = 0 => last.val = 1
             /\ last.op = "Rank" /\ last.arg = 7 => last.val = 4
             /\ last.op = "Rank" /\ last.arg = 15 => last.val = rank15
             /\ last.op = "Rank0" /\ last.arg = 7 => last.val = 4
             /\ last.op = "Select" /\ last.arg = 1 => last.val = 0
             /\ last.op = "Select" /\ last.arg = 4 => last.val = 7
             /\ last.op = "Select" /\ last.arg = 6 => last.val = select6
             /\ last.op = "Select" /\ last.arg = 7 => last.val = select7
             /\ last.op = "Select0" /\ last.arg = 1 => last.val = 1
             /\ last.op = "Select0" /\ last.arg = 4 => last.val = 6

\* C7, as stated: in the dictionary made by New(16), with the bits
\* 1,0,1,1,0,0,0,1,1,1,0,0,0,0,0,1 written to positions 0..15 and then
\* CreateIndex, Rank(0) = 1, Rank(7) = 4, Rank(15) = 6, Rank0(7) = 4,
\* Select(1) = 0, Select(4) = 7, Select(6) = 15, Select(7) = 16 = Len(),
\* Select0(1) = 1 and Select0(4) = 6.
C7_ScenarioAsStated == ScenarioReturns(6, 15, 16)

\* C7, as the code has it: the bits of the scenario have seven set bits, at
\* positions 0, 2, 3, 7, 8, 9 and 15, so that in that dictionary
\* Rank(15) = 7, Select(6) = 9 and Select(7) = 15, and Len() = 16 is what
\* Select(8) returns; Rank(0) = 1, Rank(7) = 4, Rank0(7) = 4, Select(1) = 0,
\* Select(4) = 7, Select0(1) = 1 and Select0(4) = 6 are as stated.
C7_Scenario ==
    /\ ScenarioReturns(7, 9, 15)
    /\ (phase = "indexed" /\ bits = ScenarioDictionary) =>
          /\ Select(8) = [val |-> 16, fault |-> FALSE]
          /\ last.op = "Select" /\ last.arg = 8 => last.val = 16

\* Select(7) answered in the dictionary of the scenario.
C7_Witness ==
    /\ phase = "indexed"
    /\ bits = ScenarioDictionary
    /\ last = [op |-> "Select", arg |-> 7, val |-> 15, fault |-> FALSE]

Queries == {"Rank", "Rank0", "Select", "Select0"}

\* C8, as stated: in a dictionary made by New on which CreateIndex has never
\* been called, Rank(pos) of an in-range pos, and with it Rank0(pos),
\* Select(rank) and Select0(rank), returns a value without an indexing
\* fault.
C8_QueriesReturnUnindexed ==
    NeverIndexed =>
       /\ \A pos \in InRangePositions : ~RankFault(pos)
       /\ \A k \in Ranks : ~Select(k).fault /\ ~Select0(k).fault
       /\ last.op \in Queries => ~last.fault

\* C8, as the code has it: in a dictionary made by New(size), size >= 1, on
\* which CreateIndex has never been called, the slices of the rank index are
\* nil, and Rank(pos) of every in-range pos, and with it Rank0(pos),
\* Select(rank) and Select0(rank), faults with an index out of range: none
\* of them returns a value.
C8_QueriesFaultUnindexed ==
    NeverIndexed =>
       /\ DLen(bits) >= 1
       /\ \A pos \in InRangePositions : RankFault(pos)
       /\ \A k \in Ranks : Select(k).fault /\ Select0(k).fault
       /\ last.op \in Queries => last.fault

\* Select asked of a dictionary with bits written and no index ever built.
C8_Witness ==
    /\ NeverIndexed
    /\ last.op = "Select"
    /\ last.fault
    /\ \E q \in InRangePositions : Bit(q)

\* The index that newDictionary builds in a fresh dictionary holding the
\* bits of d: New(Len()), SetBit(i, Bit(i)) for every position i, CreateIndex.
FreshIndex ==
    LET bs == [i \in 1..DLen(bits) |-> Bit(i - 1)]
        r  == CreateIndexOf(SetBitsIn(NewBits(Len(bs)), bs))
    IN  [small |-> r.small, large |-> r.large]

\* C9: CreateIndex rebuilds the whole index from the bits as they are.  After
\* any interleaving of in-range SetBit calls and CreateIndex calls that ends
\* with CreateIndex, small and large are the arrays that one CreateIndex
\* builds in a fresh dictionary holding the same bits, and Rank(p) is the
\* number of set bits among positions 0..p for every position p with
\* 0 <= p < Len(); and a CreateIndex made with no SetBit since the last one
\* leaves the index as it was, and with it, the bits being the same, what
\* every query returns.
C9_CreateIndexRebuilds ==
    /\ [](JustIndexed =>
            /\ ~last.fault
            /\ rank = FreshIndex
            /\ \A p \in InRangePositions :
                  ~RankFault(p) /\ Rank(p) = CountOnes(p))
    /\ [][(phase = "indexed" /\ last'.op = "CreateIndex") =>
             (rank' = rank /\ bits' = bits)]_vars

\* CreateIndex has replaced an index built before bits were written, and the
\* bits are not those of before: some are set, and some not.
C9_Witness ==
    /\ JustIndexed
    /\ last.arg > 0
    /\ \E q \in InRangePositions : Bit(q)
    /\ \E q \in InRangePositions : ~Bit(q)
    /\ rank.small[len(bits)] > 0

\* C10, as stated: after CreateIndex, for every block b, with s = b / 8191
\* the superblock of b, small[b+1] + large[s] is the number of set bits in
\* the blocks 0..b, the last block of a superblock, b mod 8191 = 8190,
\* included.
C10_SumWithOwnSuperblock ==
    JustIndexed =>
       LET cnt == SetBitCounts
       IN  \A b \in 0..(len(bits) - 1) :
              /\ InRange(rank.small, b + 1)
              /\ InRange(rank.large, largeIndex(b))
              /\ rank.small[b + 1] + rank.large[largeIndex(b)]
                    = cnt[bitsSize * (b + 1)]

\* C10, as the code has it: after CreateIndex, for every block b,
\* small[b+1] + large[(b+1) / 8191] is the number of set bits in the blocks
\* 0..b.  With s = b / 8191 that is small[b+1] + large[s] for every block
\* but the last of a superblock; for b mod 8191 = 8190, small[b+1] is left 0
\* and the number is in large[s+1].
C10_SumWithNextBlockSuperblock ==
    JustIndexed =>
       LET cnt == SetBitCounts
       IN  \A b \in 0..(len(bits) - 1) :
              /\ InRange(rank.small, b + 1)
              /\ InRange(rank.large, largeIndex(b + 1))
              /\ rank.small[b + 1] + rank.large[largeIndex(b + 1)]
                    = cnt[bitsSize * (b + 1)]
              /\ b % bitsPerRankIndexLarge = bitsPerRankIndexLarge - 1 =>
                    /\ rank.small[b + 1] = 0
                    /\ rank.large[largeIndex(b) + 1] = cnt[bitsSize * (b + 1)]
              /\ b % bitsPerRankIndexLarge # bitsPerRankIndexLarge - 1 =>
                    rank.small[b + 1] + rank.large[largeIndex(b)]
                       = cnt[bitsSize * (b + 1)]

\* CreateIndex has indexed the large dictionary with every bit of the first
\* superblock but the last one set: the count at its last block is in
\* large[1].
C10_Witness ==
    /\ JustIndexed
    /\ ~IsSmall
    /\ rank.large[1] = LargeBoundary - 1
    /\ rank.small[bitsPerRankIndexLarge] = 0

\* The largest value that fits the 16-bit counter of a block without
\* exceeding the bits of a superblock: 8 * 8191.
MaxSmall == bitsSize * bitsPerRankIndexLarge

\* C11: every value that CreateIndex stores into small, onesCount less
\* large[superblock] for a block that is not the last of its superblock,
\* lies in 0..65528, whatever the bits, a whole superblock of set bits
\* included; its conversion to uint16 therefore changes nothing, and the
\* entry stored is the number of set bits from the start of the superblock
\* of the block through the block.
C11_SmallNeverWraps ==
    JustIndexed =>
       LET cs  == OnesCounts(bits)
           cnt == SetBitCounts
       IN  \A b \in 0..(len(bits) - 1) :
              b % bitsPerRankIndexLarge # bitsPerRankIndexLarge - 1 =>
                 LET li    == largeIndex(b)
                     first == bitsSize * bitsPerRankIndexLarge * li
                     value == cs[b + 1] - rank.large[li]
                 IN  /\ value \in 0..MaxSmall
                     /\ Uint16(value) = value
                     /\ rank.small[b + 1] = value
                     /\ value = cnt[bitsSize * (b + 1)]
                                  - (IF first = 0 THEN 0 ELSE cnt[first])

\* CreateIndex has indexed the large dictionary with every bit set: the
\* block before the last of superblock 0 stores 8 * 8190, superblock 1
\* starts at 8 * 8191, and its first block stores only its own set bits.
C11_Witness ==
    /\ JustIndexed
    /\ ~IsSmall
    /\ rank.small[bitsPerRankIndexLarge - 1] = bitsSize * (bitsPerRankIndexLarge - 1)
    /\ rank.large[1] = MaxSmall
    /\ rank.small[bitsPerRankIndexLarge + 1] \in 1..bitsSize

====
